---- MODULE Spec2Model ----
(***************************************************************************)
(* Job lifecycle engine of ig-planner-backend: the job record store and    *)
(* the work queue (jobs.py), the producer endpoints (routers/ai.py,        *)
(* media_router.py, routers/flow.py, main.py), the worker loop and the     *)
(* video filter pipeline (main.py) and the AI generation pipeline          *)
(* (ai_worker.py).                                                         *)
(*                                                                         *)
(* Conventions.                                                            *)
(*  - A call of create_job / get_job / update_job_status / rpush_job /     *)
(*    lpush_job / brpop_job is modelled as the completed operation that    *)
(*    jobs.py defines, with the arguments jobs.py knows (status, result,   *)
(*    error).  The coroutine plumbing of the call sites (main.py calls the *)
(*    coroutine functions without await) and the keyword `stage` that      *)
(*    ai_worker.py passes and jobs.py does not declare are not modelled.   *)
(*  - One action is the code between two suspension points of a task.      *)
(*  - Time is discrete; a Redis key lives while its remaining time to live *)
(*    is positive.                                                         *)
(*  - src/ holds no caller of brpop_job or process_ai_job.  The loop that  *)
(*    drains the Redis list (RedisWorkers) is modelled from section 4.3 of *)
(*    the specification; the loop of main.py drains the in-process queue   *)
(*    job_queue.                                                           *)
(***************************************************************************)
EXTENDS Integers, Sequences, FiniteSets, TLC

\* ---------------------------------------------------------------- bounds
MaxJobs == 2
JOB_TTL_SECONDS == 2
MaxLines == 1
\* how many lines the transcoder's stream is tried with at most, in the views
\* of a single run
MaxStream == 2

JobIds == 1..MaxJobs
\* the tasks _start_workers creates (VIDEO_WORKERS of them)
MainWorkers == {"m1", "m2"}
\* the loops that drain the Redis list
RedisWorkers == {"r1", "r2"}
Workers == MainWorkers \cup RedisWorkers

\* ------------------------------------------------------------- jobs.py
PENDING == "PENDING"
RUNNING == "RUNNING"
DONE == "DONE"
ERROR == "ERROR"

Terminal == {DONE, ERROR}
AIKinds == {"image_t2i", "image_i2i", "avatar_batch"}
Kinds == {"video_filter"} \cup AIKinds

\* JSON null of the error field
NULL == "null"
\* JSON null of the result field / an omitted result argument
NoResult == [tag |-> "null", stage |-> "", progress |-> 0]
\* result={"stage": s, "progress": p}
Progress(s, p) == [tag |-> "progress", stage |-> s, progress |-> p]
\* the final result of the video pipeline: it has no stage and no progress key
VideoResult == [tag |-> "video", stage |-> "", progress |-> 0]
\* the result of an AI job
AIResult == [tag |-> "ai", stage |-> "", progress |-> 0]

\* what get_job returns for a missing key
None == [job_id |-> 0, kind |-> "none", status |-> "none", result |-> NoResult, error |-> NULL]

VARIABLES
    store,      \* Redis keys job:<id>: id -> [val: the JSON record, ex: seconds to live]
    queue,      \* the Redis list REDIS_QUEUE, head (left) first
    job_queue,  \* the asyncio.Queue of main.py, oldest first
    nextId,     \* the next fresh uuid
    wk,         \* the state of each worker loop
    enq,        \* history: ids in the order they were pushed on the Redis list
    deq,        \* history: ids in the order brpop_job returned them
    pops,       \* history: how many times each id was popped from either queue
    age,        \* history: seconds since the last write to each id (capped)
    up,         \* whether Redis answers: a call made while it is FALSE raises
    api,        \* the last direct call of create_job / update_job_status and what it returned
    ai,         \* one run of process_ai_job for a single-image job, call by call
    bt,         \* one run of process_ai_job for an avatar_batch job, variant by variant
    vid,        \* one run of _process_video_task, with its preset, probes and progress stream
    poll,       \* one call of _replicate_poll, request by request
    lp          \* the event loop of main.py: who runs on it and which binaries are running

vars == <<store, queue, job_queue, nextId, wk, enq, deq, pops, age, up, api, ai, bt, vid, poll, lp>>

\* the state that only the fine-grained views of single functions use
fine == <<api, ai, bt, vid, poll, lp>>

\* the same without the one a view is about
fineNotApi == <<ai, bt, vid, poll, lp>>
fineNotAI == <<api, bt, vid, poll, lp>>
fineNotBatch == <<api, ai, vid, poll, lp>>
fineNotVideo == <<api, ai, bt, poll, lp>>
fineNotPoll == <<api, ai, bt, vid, lp>>
fineNotLoop == <<api, ai, bt, vid, poll>>

Exists(s, job_id) == job_id \in DOMAIN s

\* a set that keeps the expiry of a key it overwrites
RedisSet_KeepTTL(s, job_id, data) ==
    [k \in DOMAIN s \cup {job_id} |->
        IF k = job_id
        THEN [val |-> data, ex |-> IF Exists(s, job_id) THEN s[job_id].ex ELSE JOB_TTL_SECONDS]
        ELSE s[k]]

\* r.set(key, value, ex=JOB_TTL_SECONDS)
RedisSet(s, job_id, data) ==
    [k \in DOMAIN s \cup {job_id} |->
        IF k = job_id THEN [val |-> data, ex |-> JOB_TTL_SECONDS] ELSE s[k]]

\* a payload, as far as create_job looks into it: its "job_id" entry, 0 when
\* the payload has none
Payload(job_id) == [job_id |-> job_id]

NoJobId == Payload(0)

\* job_id = payload.get("job_id"); if not job_id: job_id = uuid.uuid4().hex
JobIdFor(payload, fresh) == IF payload.job_id # 0 THEN payload.job_id ELSE fresh

create_job(s, kind, payload, fresh) ==
    RedisSet(s, JobIdFor(payload, fresh),
        [job_id |-> JobIdFor(payload, fresh), kind |-> kind, status |-> PENDING,
         result |-> NoResult, error |-> NULL])

get_job(s, job_id) == IF Exists(s, job_id) THEN s[job_id].val ELSE None

\* an update that creates the record when there is none
update_job_status_Upsert(s, job_id, status, result, error) ==
    RedisSet(s, job_id,
        [(IF Exists(s, job_id) THEN s[job_id].val ELSE [None EXCEPT !.job_id = job_id])
            EXCEPT !.status = status,
                   !.result = IF result # NoResult THEN result ELSE @,
                   !.error = IF error # NULL THEN error ELSE @])

update_job_status(s, job_id, status, result, error) ==
    IF ~Exists(s, job_id)
    THEN s
    ELSE RedisSet(s, job_id,
            [s[job_id].val EXCEPT
                !.status = status,
                !.result = IF result # NoResult THEN result ELSE @,
                !.error = IF error # NULL THEN error ELSE @])

\* what update_job_status returns: None, or the record it wrote
update_job_status_ret(s, job_id, status, result, error) ==
    IF ~Exists(s, job_id)
    THEN None
    ELSE update_job_status(s, job_id, status, result, error)[job_id].val

rpush_job(q, job_id) == Append(q, job_id)

lpush_job(q, job_id) == <<job_id>> \o q

\* a pop that leaves the element on the list
brpop_job_Peek(q) == [job_id |-> q[Len(q)], rest |-> q]

\* BRPOP takes the last (right) element
brpop_job(q) == [job_id |-> q[Len(q)], rest |-> SubSeq(q, 1, Len(q) - 1)]

\* history: the write of job_id happened now
Wrote(a, s, job_id) == IF Exists(s, job_id) THEN [a EXCEPT ![job_id] = 0] ELSE a

\* -------------------------------------------------------------- workers
Idle == [pc |-> "pop", job_id |-> 0, kind |-> "none", exc |-> NULL,
         lines |-> 0, last_pct |-> 0, ret |-> NoResult, escaped |-> FALSE]

\* ------------------------------------------------ exceptions of the AI run
\* an exception: who raised it, at which of its calls, its class and, for an
\* AIProviderError, its retryable attribute
Exc(by, n, cls, retryable) == [by |-> by, n |-> n, cls |-> cls, retryable |-> retryable]

NoExc == Exc("none", 0, "none", FALSE)

\* every exception counts as retryable
_is_retryable_error_Always(exc) == exc = exc

\* _is_retryable_error(exc)
_is_retryable_error(exc) ==
    IF exc.cls = "AIProviderError" THEN exc.retryable
    ELSE exc.cls \in {"TimeoutException", "NetworkError"}

\* str(exc): one message for every exception that is told apart
Msg(exc) ==
    CASE exc.by = "primary" /\ exc.n = 1 -> "primary failed at call 1"
      [] exc.by = "primary" /\ exc.n = 2 -> "primary failed at call 2"
      [] exc.by = "primary" /\ exc.n = 3 -> "primary failed at call 3"
      [] exc.by = "fallback" /\ exc.n = 1 -> "fallback failed at call 1"
      [] exc.by = "fallback" /\ exc.n = 2 -> "fallback failed at call 2"
      [] exc.by = "fallback" /\ exc.n = 3 -> "fallback failed at call 3"
      [] exc.by = "download" -> "Download failed"
      [] exc.by = "upload" -> "Cloudinary upload failed"
      [] exc.by = "process_ai_job" -> "No images uploaded to Cloudinary"
      [] OTHER -> "error"

\* the run is not looked at
AIOff ==
    [pc |-> "off", kind |-> "none", primary |-> "none", who |-> "none", attempt |-> 0,
     log |-> <<>>, sleeps |-> <<>>, exc |-> NoExc, raised |-> NoExc, provider |-> "none",
     urls |-> 0, idx |-> 0, out |-> <<>>, files |-> {}]

NoCall == [call |-> "none", job_id |-> 0, ret |-> None, seq |-> 0]

\* the batch run is not looked at
BatchOff ==
    [pc |-> "off", sources |-> 0, variants |-> 0, src |-> 0, v |-> 0,
     generated |-> 0, items |-> <<>>, success_count |-> 0]

\* supp = {name: _ffmpeg_has_filter(name) for name in ["gblur", "boxblur", "vignette"]}
Probes == [gblur : BOOLEAN, boxblur : BOOLEAN, vignette : BOOLEAN]

\* the video run is not looked at
VideoOff ==
    [pc |-> "off", preset |-> "none", supp |-> [gblur |-> TRUE, boxblur |-> TRUE, vignette |-> TRUE],
     known |-> FALSE, last_pct |-> 0, lines |-> 0, written |-> <<>>,
     pipe |-> 0, eof |-> FALSE, rc |-> 0, exc |-> ""]

\* _replicate_poll is not looked at
PollOff ==
    [pc |-> "off", requests |-> 0, status |-> "none", late |-> 0, ret |-> "none",
     raised |-> NoExc]

\* the coroutines of the event loop of main.py that run the transcoder: the
\* worker loops, and a request handled by media_transcode_video
Handlers == {"media_transcode_video"}
Coroutines == MainWorkers \cup Handlers

\* the event loop before any video job is taken: nobody runs on it, no binary
\* is running, _FFMPEG_FILTERS_CACHE is None
LoopOff ==
    [holder |-> "none", cached |-> FALSE,
     pc |-> [w \in Coroutines |-> "idle"],
     ext |-> [w \in Coroutines |-> "none"],
     lines |-> [w \in Coroutines |-> 0]]

Init ==
    /\ store = <<>>
    /\ queue = <<>>
    /\ job_queue = <<>>
    /\ nextId = 1
    /\ wk = [w \in Workers |-> Idle]
    /\ enq = <<>>
    /\ deq = <<>>
    /\ pops = [j \in JobIds |-> 0]
    /\ age = [j \in JobIds |-> 0]
    /\ up = TRUE
    /\ api = NoCall
    /\ ai = AIOff
    /\ bt = BatchOff
    /\ vid = VideoOff
    /\ poll = PollOff
    /\ lp = LoopOff

\* ------------------------------------------------------------ producers
\* routers/ai.py: create_job(kind, payload); rpush_job(job_id)
\* media_router.py: create_job("video_filter", payload); rpush_job(job_id)
ProduceRpush(kind) ==
    /\ up
    /\ nextId <= MaxJobs
    /\ store' = create_job(store, kind, NoJobId, nextId)
    /\ queue' = rpush_job(queue, nextId)
    /\ enq' = Append(enq, nextId)
    /\ age' = [age EXCEPT ![nextId] = 0]
    /\ nextId' = nextId + 1
    /\ UNCHANGED <<job_queue, wk, deq, pops, up>>
    /\ UNCHANGED fine

\* routers/flow.py: create_job("video_filter", payload); lpush_job(job_id)
ProduceLpush ==
    /\ up
    /\ nextId <= MaxJobs
    /\ store' = create_job(store, "video_filter", NoJobId, nextId)
    /\ queue' = lpush_job(queue, nextId)
    /\ enq' = Append(enq, nextId)
    /\ age' = [age EXCEPT ![nextId] = 0]
    /\ nextId' = nextId + 1
    /\ UNCHANGED <<job_queue, wk, deq, pops, up>>
    /\ UNCHANGED fine

\* a producer of main.py that puts an AI job on job_queue
ProduceMain_AIKind ==
    /\ up
    /\ nextId <= MaxJobs
    /\ store' = create_job(store, "image_t2i", NoJobId, nextId)
    /\ job_queue' = Append(job_queue, nextId)
    /\ age' = [age EXCEPT ![nextId] = 0]
    /\ nextId' = nextId + 1
    /\ UNCHANGED <<queue, wk, enq, deq, pops, up>>
    /\ UNCHANGED fine

\* main.py: create_job(kind="video_filter", payload); job_queue.put(job_id)
ProduceMain ==
    /\ up
    /\ nextId <= MaxJobs
    /\ store' = create_job(store, "video_filter", NoJobId, nextId)
    /\ job_queue' = Append(job_queue, nextId)
    /\ age' = [age EXCEPT ![nextId] = 0]
    /\ nextId' = nextId + 1
    /\ UNCHANGED <<queue, wk, enq, deq, pops, up>>
    /\ UNCHANGED fine

\* seq without the id job_id
Without(seq, job_id) == SelectSeq(seq, LAMBDA x : x # job_id)

\* the endpoints of routers/ai.py and media_router.py keep being called: once
\* every fresh name is used, the name of a job that is over stands for a new job
ProduceAgain(job_id, kind) ==
    /\ up
    /\ nextId > MaxJobs
    /\ pops[job_id] = 1
    /\ \A w \in DOMAIN wk : wk[w].job_id # job_id
    /\ store' = create_job(store, kind, Payload(job_id), nextId)
    /\ queue' = rpush_job(queue, job_id)
    /\ enq' = Append(Without(enq, job_id), job_id)
    /\ deq' = Without(deq, job_id)
    /\ pops' = [pops EXCEPT ![job_id] = 0]
    /\ age' = [age EXCEPT ![job_id] = 0]
    /\ UNCHANGED <<job_queue, nextId, wk, up>>
    /\ UNCHANGED fine

\* ------------------------------------------- jobs.py called directly
\* the arguments the direct calls are tried with
ApiStatuses == {PENDING, RUNNING, DONE, ERROR}
ApiResults == {NoResult, AIResult}
ApiErrors == {NULL, "boom"}

\* any caller: await create_job(kind, payload), the payload with or without a
\* "job_id" (one that was handed out before)
CallCreate(kind, payload) ==
    /\ up
    /\ payload.job_id = 0 => nextId <= MaxJobs
    /\ payload.job_id # 0 => payload.job_id < nextId
    /\ store' = create_job(store, kind, payload, nextId)
    /\ nextId' = IF payload.job_id = 0 THEN nextId + 1 ELSE nextId
    /\ age' = [age EXCEPT ![JobIdFor(payload, nextId)] = 0]
    /\ api' = [call |-> "create", job_id |-> JobIdFor(payload, nextId),
               ret |-> get_job(store', JobIdFor(payload, nextId)), seq |-> 1 - api.seq]
    /\ UNCHANGED <<queue, job_queue, wk, enq, deq, pops, up, fineNotApi>>

\* any caller: await update_job_status(job_id, status, result=..., error=...)
CallUpdate(job_id, status, result, error) ==
    /\ up
    /\ store' = update_job_status(store, job_id, status, result, error)
    /\ age' = Wrote(age, store, job_id)
    /\ api' = [call |-> "update", job_id |-> job_id,
               ret |-> update_job_status_ret(store, job_id, status, result, error),
               seq |-> 1 - api.seq]
    /\ UNCHANGED <<queue, job_queue, nextId, wk, enq, deq, pops, up, fineNotApi>>

\* -------------------- jobs.py update_job_status, the record field by field
\* the values _now() is tried with
MaxTime == 2
Times == 0..MaxTime

\* the JSON document create_job stores, every key of it; created_at and
\* updated_at are the two readings of _now()
Document(job_id, kind, payload, created_at, updated_at) ==
    [job_id |-> job_id, kind |-> kind, status |-> PENDING, payload |-> payload,
     result |-> NoResult, error |-> NULL,
     created_at |-> created_at, updated_at |-> updated_at]

\* an update that stores its result argument even when it is None
Updated_StoresNone(data, status, result, error, now) ==
    [data EXCEPT !.status = status, !.updated_at = now, !.result = result,
                 !.error = IF error # NULL THEN error ELSE @]

\* data["status"] = status; data["updated_at"] = _now();
\* if result is not None: data["result"] = result;
\* if error is not None: data["error"] = error
Updated(data, status, result, error, now) ==
    [data EXCEPT !.status = status, !.updated_at = now,
                 !.result = IF result # NoResult THEN result ELSE @,
                 !.error = IF error # NULL THEN error ELSE @]

\* no update_job_status call is in flight
NoUpdate ==
    [call |-> "none", job_id |-> 0, status |-> PENDING, result |-> NoResult, error |-> NULL,
     raw |-> None, existed |-> FALSE, now |-> 0]

\* a job some endpoint created and earlier updates may have touched, with
\* part of its time to live gone, or no job
InitRecord ==
    /\ \/ store = <<>>
       \/ \E kind \in Kinds, payload \in {NoJobId, Payload(1)},
             status \in ApiStatuses, result \in ApiResults, error \in ApiErrors,
             ex \in 1..JOB_TTL_SECONDS :
            store = [j \in {1} |->
                        [val |-> [Document(1, kind, payload, 0, 0) EXCEPT
                                    !.status = status, !.result = result, !.error = error],
                         ex |-> ex]]
    /\ queue = <<>>
    /\ job_queue = <<>>
    /\ nextId = 2
    /\ wk = [w \in Workers |-> Idle]
    /\ enq = <<>>
    /\ deq = <<>>
    /\ pops = [j \in JobIds |-> 0]
    /\ age = [j \in JobIds |-> 0]
    /\ up = TRUE
    /\ api = NoUpdate
    /\ ai = AIOff
    /\ bt = BatchOff
    /\ vid = VideoOff
    /\ poll = PollOff
    /\ lp = LoopOff

RecordFrame ==
    UNCHANGED <<queue, job_queue, nextId, wk, enq, deq, pops, up, fineNotApi>>

\* raw = await r.get(key), the key is there
R_Get(job_id, status, result, error) ==
    /\ api.call \in {"none", "returned"}
    /\ Exists(store, job_id)
    /\ api' = [call |-> "get", job_id |-> job_id, status |-> status, result |-> result,
               error |-> error, raw |-> store[job_id].val, existed |-> TRUE, now |-> 0]
    /\ UNCHANGED <<store, age>>
    /\ RecordFrame

\* raw = await r.get(key); if not raw: return None
R_GetNone(job_id, status, result, error) ==
    /\ api.call \in {"none", "returned"}
    /\ ~Exists(store, job_id)
    /\ api' = [NoUpdate EXCEPT !.call = "returned", !.job_id = job_id, !.status = status,
                               !.result = result, !.error = error]
    /\ UNCHANGED <<store, age>>
    /\ RecordFrame

\* data = json.loads(raw), the assignments, and
\* await r.set(key, json.dumps(data), ex=settings.JOB_TTL_SECONDS); return data
R_Set(now) ==
    /\ api.call = "get"
    /\ store' = RedisSet(store, api.job_id,
                    Updated(api.raw, api.status, api.result, api.error, now))
    /\ age' = [age EXCEPT ![api.job_id] = 0]
    /\ api' = [api EXCEPT !.call = "returned", !.now = now,
                          !.existed = Exists(store, api.job_id)]
    /\ RecordFrame

\* ------------------------------------- routers/ai.py, the producer endpoints
\* an Optional[...] body field: JSON null, or a value
NoneArg == [some |-> FALSE, v |-> 0]
NoneStr == [some |-> FALSE, v |-> ""]
Some(v) == [some |-> TRUE, v |-> v]

\* ALLOWED_ASPECTS; "2:1" stands for every other non-blank string
ALLOWED_ASPECTS == {"1:1", "3:4", "4:3", "9:16", "16:9", "5:8"}

\* s.strip() of the strings that are tried
Strip(str) == IF str = " " THEN "" ELSE str

\* the kind of job each endpoint creates
GenerateEndpoints == {"ai_generate_text", "ai_generate_image", "ai_generate_batch"}
KindOf(endpoint) ==
    CASE endpoint = "ai_generate_text" -> "image_t2i"
      [] endpoint = "ai_generate_image" -> "image_i2i"
      [] OTHER -> "avatar_batch"

\* the request bodies that are tried: strength in tenths, image_urls as the
\* number of non-blank and of blank entries; a field an endpoint does not
\* declare keeps its default
Prompts == {"a cat", " "}
AspectArgs == {NoneStr, Some("1:1"), Some("2:1"), Some("")}
StepsArgs == {NoneArg, Some(9), Some(10), Some(51)}
StrengthArgs == {NoneArg, Some(0 - 1), Some(10), Some(11)}
UrlCounts == {14, 15, 50, 51}
VariantArgs == {NoneArg, Some(0), Some(1), Some(4), Some(5)}

Requests(endpoint) ==
    [prompt : Prompts, aspect_ratio : AspectArgs, steps : StepsArgs,
     strength : IF endpoint = "ai_generate_text" THEN {NoneArg} ELSE StrengthArgs,
     image_urls : IF endpoint = "ai_generate_batch" THEN UrlCounts ELSE {0},
     blank_urls : IF endpoint = "ai_generate_batch" THEN {0, 1} ELSE {0},
     variants_per_image : IF endpoint = "ai_generate_batch" THEN VariantArgs ELSE {NoneArg}]

\* _validate_steps: None gives the default, a value outside 10..50 raises 400
_validate_steps(steps) ==
    IF ~steps.some THEN TRUE ELSE ~(steps.v < 10 \/ steps.v > 50)

\* _validate_aspect: ar = (aspect_ratio or "1:1").strip(); ar in ALLOWED_ASPECTS
_validate_aspect(aspect_ratio) ==
    LET ar == IF ~aspect_ratio.some \/ aspect_ratio.v = "" THEN "1:1"
              ELSE Strip(aspect_ratio.v)
    IN  ar \in ALLOWED_ASPECTS

\* _validate_strength: None gives the default, a value outside 0..1 raises 400
_validate_strength(strength) ==
    IF ~strength.some THEN TRUE ELSE ~(strength.v < 0 \/ strength.v > 10)

\* vpi = int(variants_per_image or 1): None and 0 both give 1
vpi(variants_per_image) ==
    IF ~variants_per_image.some \/ variants_per_image.v = 0 THEN 1
    ELSE variants_per_image.v

\* the HTTP status an endpoint answers with, its checks in the order of the
\* code: rate limit, prompt, batch size and variants, credits, payload fields
GenerateStatus(endpoint, req, limited, can_proceed) ==
    IF limited THEN 429
    ELSE IF Strip(req.prompt) = "" THEN 400
    ELSE IF endpoint = "ai_generate_batch" /\ (req.image_urls < 15 \/ req.image_urls > 50) THEN 400
    ELSE IF endpoint = "ai_generate_batch"
            /\ (vpi(req.variants_per_image) < 1 \/ vpi(req.variants_per_image) > 4) THEN 400
    ELSE IF ~can_proceed THEN 402
    ELSE IF endpoint # "ai_generate_text" /\ ~_validate_strength(req.strength) THEN 400
    ELSE IF ~_validate_aspect(req.aspect_ratio) THEN 400
    ELSE IF ~_validate_steps(req.steps) THEN 400
    ELSE 200

\* a client has sent a request to one of the endpoints; nothing else has
\* happened since the process started
InitGenerate ==
    /\ \E endpoint \in GenerateEndpoints, limited \in BOOLEAN, can_proceed \in BOOLEAN :
        \E req \in Requests(endpoint) :
            api = [call |-> "request", job_id |-> 0, ret |-> None, seq |-> 0,
                   endpoint |-> endpoint, req |-> req, limited |-> limited,
                   can_proceed |-> can_proceed, http |-> 0]
    /\ store = <<>>
    /\ queue = <<>>
    /\ job_queue = <<>>
    /\ nextId = 1
    /\ wk = [w \in Workers |-> Idle]
    /\ enq = <<>>
    /\ deq = <<>>
    /\ pops = [j \in JobIds |-> 0]
    /\ age = [j \in JobIds |-> 0]
    /\ up = TRUE
    /\ ai = AIOff
    /\ bt = BatchOff
    /\ vid = VideoOff
    /\ poll = PollOff
    /\ lp = LoopOff

\* POST /ai/generate/text, /image, /batch: the checks, then
\* job = await create_job(kind, payload); await rpush_job(job["job_id"])
AiGenerate ==
    /\ up
    /\ api.call = "request"
    /\ LET http == GenerateStatus(api.endpoint, api.req, api.limited, api.can_proceed) IN
        /\ api' = [api EXCEPT !.call = "generate", !.http = http,
                              !.job_id = IF http = 200 THEN nextId ELSE 0]
        /\ IF http = 200
           THEN /\ store' = create_job(store, KindOf(api.endpoint), NoJobId, nextId)
                /\ queue' = rpush_job(queue, nextId)
                /\ enq' = Append(enq, nextId)
                /\ age' = [age EXCEPT ![nextId] = 0]
                /\ nextId' = nextId + 1
           ELSE UNCHANGED <<store, queue, enq, age, nextId>>
    /\ UNCHANGED <<job_queue, wk, deq, pops, up, fineNotApi>>

\* ------------------------- ai_providers.py, _replicate_poll request by request
\* for _ in range(120)
PollAttempts == 120

\* the statuses a prediction is reported with
TerminalStatuses == {"succeeded", "failed", "canceled"}
PendingStatuses == {"starting", "processing"}

\* a timeout that is not flagged retryable
PollTimeout_NotRetryable == Exc("_replicate_poll", 0, "AIProviderError", FALSE)

\* AIProviderError("Replicate polling timeout", retryable=True)
PollTimeout == Exc("_replicate_poll", 0, "AIProviderError", TRUE)

\* _replicate_poll(prediction_id, token=...) has been called
InitPoll ==
    /\ poll = [PollOff EXCEPT !.pc = "get"]
    /\ store = <<>>
    /\ queue = <<>>
    /\ job_queue = <<>>
    /\ nextId = 1
    /\ wk = [w \in Workers |-> Idle]
    /\ enq = <<>>
    /\ deq = <<>>
    /\ pops = [j \in JobIds |-> 0]
    /\ age = [j \in JobIds |-> 0]
    /\ up = TRUE
    /\ api = NoCall
    /\ ai = AIOff
    /\ bt = BatchOff
    /\ vid = VideoOff
    /\ lp = LoopOff

\* polling touches nothing but its own locals
PollFrame ==
    UNCHANGED <<store, queue, job_queue, nextId, wk, enq, deq, pops, age, up, fineNotPoll>>

\* one more request was issued; late counts those issued after a terminal answer
Requested(p) ==
    [p EXCEPT !.requests = @ + 1,
              !.late = IF p.status \in TerminalStatuses THEN @ + 1 ELSE @]

\* r = await client.get(...): 200 with a status that is not over; the loop
\* goes to its sleep
Poll_Pending(status) ==
    /\ poll.pc = "get"
    /\ poll' = [Requested(poll) EXCEPT !.status = status, !.pc = "sleep"]
    /\ PollFrame

\* r = await client.get(...): 200 with succeeded, failed or canceled: return data
Poll_Over(status) ==
    /\ poll.pc = "get"
    /\ poll' = [Requested(poll) EXCEPT !.status = status, !.ret = status, !.pc = "end"]
    /\ PollFrame

\* r = await client.get(...): a 5xx or 4xx answer, or the request itself
\* raises (a timeout of the client): the exception leaves _replicate_poll
Poll_Raise(exc) ==
    /\ poll.pc = "get"
    /\ poll' = [Requested(poll) EXCEPT !.raised = exc, !.pc = "end"]
    /\ PollFrame

\* await asyncio.sleep(2) is over: the next request, or the range is used up
\* and the timeout is raised
Poll_Wake ==
    /\ poll.pc = "sleep"
    /\ poll' = IF poll.requests < PollAttempts
               THEN [poll EXCEPT !.pc = "get"]
               ELSE [poll EXCEPT !.raised = PollTimeout, !.pc = "end"]
    /\ PollFrame

\* ----------- main.py, the worker loops on the event loop and the binaries
\* a coroutine runs on the loop from the moment it is resumed to its next
\* await; lp.holder is the worker whose coroutine is running, and while it is
\* not "none" no other coroutine of the loop can be resumed. subprocess.run
\* returns when the binary has exited, without an await in between;
\* asyncio.create_subprocess_exec and the reads of its pipe are awaited
CanStep(w) == lp.holder = "none" \/ lp.holder = w

LoopFrame ==
    UNCHANGED <<store, queue, job_queue, nextId, wk, enq, deq, pops, age, up, fineNotLoop>>

\* _process_video_task is entered; _has_ffmpeg(): subprocess.run([FFMPEG, "-version"])
L_HasFfmpeg(w) ==
    /\ lp.pc[w] = "idle"
    /\ CanStep(w)
    /\ lp' = [lp EXCEPT !.holder = w, !.pc[w] = "ffmpeg_version",
                        !.ext[w] = "ffmpeg -version"]
    /\ LoopFrame

\* the first binary has exited; subprocess.run([FFPROBE, "-version"])
L_HasFfprobe(w) ==
    /\ lp.pc[w] = "ffmpeg_version"
    /\ lp' = [lp EXCEPT !.pc[w] = "ffprobe_version", !.ext[w] = "ffprobe -version"]
    /\ LoopFrame

\* the second binary has exited; await _download_to(url, src)
L_Download(w) ==
    /\ lp.pc[w] = "ffprobe_version"
    /\ lp' = [lp EXCEPT !.holder = "none", !.pc[w] = "download", !.ext[w] = "none"]
    /\ LoopFrame

\* subprocess.run([FFPROBE, ..., str(path)]) of _ffprobe_json
Ffprobe(w) == [lp EXCEPT !.holder = w, !.pc[w] = "ffprobe", !.ext[w] = "ffprobe"]

\* the download is over and the coroutine is resumed; _ffmpeg_has_filter:
\* subprocess.run([FFMPEG, "-hide_banner", "-filters"]) unless the cache is
\* filled, and then _ffprobe_json
L_Filters(w) ==
    /\ w \in MainWorkers
    /\ lp.pc[w] = "download"
    /\ CanStep(w)
    /\ lp' = IF lp.cached THEN Ffprobe(w)
             ELSE [lp EXCEPT !.holder = w, !.pc[w] = "filters", !.ext[w] = "ffmpeg -filters"]
    /\ LoopFrame

\* ffmpeg -filters has exited: the cache is filled; _ffprobe_json(src)
L_Ffprobe(w) ==
    /\ lp.pc[w] = "filters"
    /\ lp' = [Ffprobe(w) EXCEPT !.cached = TRUE]
    /\ LoopFrame

\* ffprobe has exited; proc = await asyncio.create_subprocess_exec(FFMPEG, ...)
L_Encode(w) ==
    /\ lp.pc[w] = "ffprobe"
    /\ lp' = [lp EXCEPT !.holder = "none", !.pc[w] = "encode", !.ext[w] = "ffmpeg",
                        !.lines[w] = 0]
    /\ LoopFrame

\* media_transcode_video: the download is over and the coroutine is resumed;
\* p = subprocess.run(cmd, capture_output=True, text=True), cmd running FFMPEG
H_Transcode(h) ==
    /\ h \in Handlers
    /\ lp.pc[h] = "download"
    /\ CanStep(h)
    /\ lp' = [lp EXCEPT !.holder = h, !.pc[h] = "transcode", !.ext[h] = "ffmpeg"]
    /\ LoopFrame

\* media_transcode_video: the transcoder has exited; return
H_Return(h) ==
    /\ lp.pc[h] = "transcode"
    /\ lp' = [lp EXCEPT !.holder = "none", !.pc[h] = "idle", !.ext[h] = "none"]
    /\ LoopFrame

\* line = await proc.stderr.readline(): the coroutine is resumed with a line
\* and awaits the next one
L_Readline(w) ==
    /\ lp.pc[w] = "encode"
    /\ CanStep(w)
    /\ lp.lines[w] < MaxStream
    /\ lp' = [lp EXCEPT !.lines[w] = @ + 1]
    /\ LoopFrame

\* rc = await proc.wait(): the transcoder has exited and the task is over
L_Wait(w) ==
    /\ lp.pc[w] = "encode"
    /\ CanStep(w)
    /\ lp' = [lp EXCEPT !.pc[w] = "idle", !.ext[w] = "none", !.lines[w] = 0]
    /\ LoopFrame

\* --------------------------------------------- the status read endpoints
\* GET /media/filter/status of media_router.py and of main.py, GET /ai/status
StatusEndpoints == {"media_router.media_filter_status", "main.media_filter_status", "ai_status"}

\* what a status endpoint answers for what get_job returned: the HTTP status
\* code, the "ok" entry of a body and its "status" entry
StatusResponse(endpoint, job) ==
    IF job = None
    THEN IF endpoint = "ai_status"
         THEN [http |-> 200, ok |-> FALSE, status |-> ERROR, error |-> "Job not found"]
         ELSE [http |-> 404, ok |-> FALSE, status |-> "none", error |-> "Job not found"]
    ELSE [http |-> 200, ok |-> TRUE, status |-> job.status, error |-> job.error]

\* a client reads the status of job_id: job = get_job(job_id); if not job: ...
CallStatus(endpoint, job_id) ==
    /\ up
    /\ api' = [call |-> "status", job_id |-> job_id, ret |-> get_job(store, job_id),
               seq |-> 1 - api.seq, endpoint |-> endpoint,
               resp |-> StatusResponse(endpoint, get_job(store, job_id))]
    /\ UNCHANGED <<store, queue, job_queue, nextId, wk, enq, deq, pops, age, up, fineNotApi>>

\* ------------------------- ai_worker.py, one single-image job call by call
\* retries=2 of _with_retries(primary_fn, retries=2)
Retries == 2

\* how many URLs a provider returns at most
MaxUrls == 2

\* settings.AI_PROVIDER decides which provider is the primary
ProviderNames == {"fal", "replicate"}

OtherProvider(name) == IF name = "replicate" THEN "fal" ELSE "replicate"

\* the classes of exception a provider call is tried with
ProviderExcs(by, n) ==
    {Exc(by, n, "AIProviderError", TRUE), Exc(by, n, "AIProviderError", FALSE),
     Exc(by, n, "TimeoutException", FALSE), Exc(by, n, "ValueError", FALSE)}

\* the calls made to provider who so far
Calls(log, who) == Len(SelectSeq(log, LAMBDA c : c.who = who))

\* the job of the run
AIJob == 1

\* a job of kind image_t2i or image_i2i was created and popped, and
\* process_ai_job(job_id, job) is about to run
InitAI ==
    /\ \E kind \in {"image_t2i", "image_i2i"}, primary \in ProviderNames :
        /\ store = create_job(<<>>, kind, NoJobId, AIJob)
        /\ ai = [AIOff EXCEPT !.pc = "start", !.kind = kind, !.primary = primary]
    /\ queue = <<>>
    /\ job_queue = <<>>
    /\ nextId = AIJob + 1
    /\ wk = [w \in Workers |-> Idle]
    /\ enq = <<AIJob>>
    /\ deq = <<AIJob>>
    /\ pops = [j \in JobIds |-> IF j = AIJob THEN 1 ELSE 0]
    /\ age = [j \in JobIds |-> 0]
    /\ up = TRUE
    /\ api = NoCall
    /\ bt = BatchOff
    /\ vid = VideoOff
    /\ poll = PollOff
    /\ lp = LoopOff

\* what a step of the run leaves alone, the record of the job apart
AIFrame == UNCHANGED <<queue, job_queue, nextId, wk, enq, deq, pops, age, up, fineNotAI>>

\* await update_job_status(job_id, RUNNING); _run_t2i / _run_i2i is entered
AI_Start ==
    /\ ai.pc = "start"
    /\ store' = update_job_status(store, AIJob, RUNNING, NoResult, NULL)
    /\ ai' = [ai EXCEPT !.pc = "call", !.who = "primary", !.attempt = 0]
    /\ AIFrame

\* a _run_t2i that lets the exception of the fallback through
AfterRaise_Last(a, last_exc) ==
    IF a.who = "primary" /\ _is_retryable_error(last_exc)
    THEN [a EXCEPT !.exc = last_exc, !.who = "fallback", !.attempt = 0, !.pc = "call"]
    ELSE [a EXCEPT !.raised = last_exc, !.pc = "except"]

\* what _run_t2i / _run_i2i does when _with_retries(func) raised last_exc
AfterRaise(a, last_exc) ==
    IF a.who = "primary"
    THEN IF _is_retryable_error(last_exc)
         THEN [a EXCEPT !.exc = last_exc, !.who = "fallback", !.attempt = 0, !.pc = "call"]
         ELSE [a EXCEPT !.exc = last_exc, !.raised = last_exc, !.pc = "except"]
    ELSE [a EXCEPT !.raised = a.exc, !.pc = "except"]

\* a _run_t2i that names the other provider
AI_CallOk_OtherName(n) ==
    /\ ai.pc = "call"
    /\ ai' = [ai EXCEPT
            !.log = Append(@, [who |-> ai.who, exc |-> NoExc]),
            !.provider = IF ai.who = "primary" THEN OtherProvider(ai.primary) ELSE ai.primary,
            !.urls = n,
            !.pc = "ran"]
    /\ UNCHANGED store
    /\ AIFrame

\* one await func() of _with_retries: the provider answers with n URLs
AI_CallOk(n) ==
    /\ ai.pc = "call"
    /\ ai' = [ai EXCEPT
            !.log = Append(@, [who |-> ai.who, exc |-> NoExc]),
            !.provider = IF ai.who = "primary" THEN ai.primary ELSE OtherProvider(ai.primary),
            !.urls = n,
            !.pc = "ran"]
    /\ UNCHANGED store
    /\ AIFrame

\* one await func() of _with_retries: the call raises exc
AI_CallRaise(exc) ==
    /\ ai.pc = "call"
    /\ exc.by = ai.who /\ exc.n = Calls(ai.log, ai.who) + 1
    /\ LET a == [ai EXCEPT !.log = Append(@, [who |-> ai.who, exc |-> exc])] IN
        ai' = IF ai.attempt >= Retries \/ ~_is_retryable_error(exc)
              THEN AfterRaise(a, exc)
              ELSE [a EXCEPT !.pc = "sleep"]
    /\ UNCHANGED store
    /\ AIFrame

\* a delay that does not grow with the attempt
AI_Sleep_Flat ==
    /\ ai.pc = "sleep"
    /\ ai' = [ai EXCEPT !.sleeps = Append(@, [who |-> ai.who, delay |-> 1]),
                         !.attempt = @ + 1, !.pc = "call"]
    /\ UNCHANGED store
    /\ AIFrame

\* await asyncio.sleep(1 + attempt), then the next attempt
AI_Sleep ==
    /\ ai.pc = "sleep"
    /\ ai' = [ai EXCEPT !.sleeps = Append(@, [who |-> ai.who, delay |-> 1 + ai.attempt]),
                         !.attempt = @ + 1, !.pc = "call"]
    /\ UNCHANGED store
    /\ AIFrame

\* await update_job_status(job_id, RUNNING); _download_and_upload(urls) is entered
AI_Ran ==
    /\ ai.pc = "ran"
    /\ store' = update_job_status(store, AIJob, RUNNING, NoResult, NULL)
    /\ ai' = [ai EXCEPT !.pc = "download", !.idx = 1]
    /\ AIFrame

\* the scratch files of URL number i: dst, and the .part file of download_to
Dst(i) == <<i, "dst">>
PartFile(i) == <<i, "part">>

\* how download_to(url, dst) may end: the file is there; the request is
\* refused before a byte is written; the stream breaks while .part is being
\* written; the stream exceeds max_bytes and .part is unlinked
DownloadOutcomes == {"ok", "refused", "broken", "too_large"}

\* how cloudinary_unsigned_upload_file(dst) may end: a response with a
\* secure_url, a response without one, an exception
UploadOutcomes == {"ok", "no_url", "raised"}

\* await download_to(url, dst); when it raises, finally unlinks dst and the
\* exception leaves _download_and_upload
AI_Download(outcome) ==
    /\ ai.pc = "download"
    /\ ai' = CASE outcome = "ok" ->
                    [ai EXCEPT !.files = @ \cup {Dst(ai.idx)}, !.pc = "upload"]
              [] outcome = "broken" ->
                    [ai EXCEPT !.files = (@ \cup {PartFile(ai.idx)}) \ {Dst(ai.idx)},
                               !.raised = Exc("download", ai.idx, "RuntimeError", FALSE),
                               !.pc = "except"]
              [] OTHER ->
                    [ai EXCEPT !.files = @ \ {Dst(ai.idx)},
                               !.raised = Exc("download", ai.idx, "RuntimeError", FALSE),
                               !.pc = "except"]
    /\ UNCHANGED store
    /\ AIFrame

\* cld = await cloudinary_unsigned_upload_file(dst); finally unlinks dst; the
\* next URL, or return out_urls
AI_Upload(outcome) ==
    /\ ai.pc = "upload"
    /\ LET a == [ai EXCEPT !.files = @ \ {Dst(ai.idx)}] IN
        ai' = IF outcome = "raised"
              THEN [a EXCEPT !.raised = Exc("upload", ai.idx, "HTTPException", FALSE),
                             !.pc = "except"]
              ELSE [a EXCEPT
                        !.out = IF outcome = "ok" THEN Append(@, ai.idx) ELSE @,
                        !.idx = @ + 1,
                        !.pc = IF ai.idx < ai.urls THEN "download" ELSE "uploaded"]
    /\ UNCHANGED store
    /\ AIFrame

\* the result of a single-image job
AIResultOf(provider, images) ==
    [tag |-> "ai", stage |-> "", progress |-> 0, provider |-> provider, images |-> images]

\* if not uploaded: raise RuntimeError(...); else update_job_status(DONE, result)
AI_Done ==
    /\ ai.pc = "uploaded"
    /\ IF ai.out = <<>>
       THEN /\ ai' = [ai EXCEPT !.raised = Exc("process_ai_job", 0, "RuntimeError", FALSE),
                                !.pc = "except"]
            /\ UNCHANGED store
       ELSE /\ store' = update_job_status(store, AIJob, DONE,
                            AIResultOf(ai.provider, ai.out), NULL)
            /\ ai' = [ai EXCEPT !.pc = "end"]
    /\ AIFrame

\* except Exception as exc: await update_job_status(job_id, ERROR, error=str(exc))
AI_Except ==
    /\ ai.pc = "except"
    /\ store' = update_job_status(store, AIJob, ERROR, NoResult, Msg(ai.raised))
    /\ ai' = [ai EXCEPT !.pc = "end"]
    /\ AIFrame

\* --------------------- ai_worker.py, one avatar_batch job variant by variant
\* how many image_urls and variants_per_image a batch is tried with at most
MaxSources == 2
MaxVariants == 2

\* an avatar_batch job was created and popped, and process_ai_job(job_id, job)
\* is about to run; image_urls and variants_per_image are whatever the payload says
InitBatch ==
    /\ \E sources \in 0..MaxSources, variants \in 0..MaxVariants :
        bt = [BatchOff EXCEPT !.pc = "start", !.sources = sources, !.variants = variants]
    /\ store = create_job(<<>>, "avatar_batch", NoJobId, AIJob)
    /\ queue = <<>>
    /\ job_queue = <<>>
    /\ nextId = AIJob + 1
    /\ wk = [w \in Workers |-> Idle]
    /\ enq = <<AIJob>>
    /\ deq = <<AIJob>>
    /\ pops = [j \in JobIds |-> IF j = AIJob THEN 1 ELSE 0]
    /\ age = [j \in JobIds |-> 0]
    /\ up = TRUE
    /\ api = NoCall
    /\ ai = AIOff
    /\ vid = VideoOff
    /\ poll = PollOff
    /\ lp = LoopOff

\* what a step of the batch leaves alone, the record of the job apart
BatchFrame == UNCHANGED <<queue, job_queue, nextId, wk, enq, deq, pops, age, up, fineNotBatch>>

\* item = {"source_image_url": src_url, "generated_images": [], "meta": {}}:
\* source is the position of src_url in image_urls, error whether the item has
\* an "error" key; produced is what the completed variants of the source
\* re-hosted, whether or not the item keeps it, and attempts how many times
\* _run_i2i was called for the source
Item(source, generated_images, error, produced, attempts) ==
    [source |-> source, generated_images |-> generated_images, error |-> error,
     produced |-> produced, attempts |-> attempts]

\* for src_url in image_urls: the loop goes to the next source, or is over
NextSource(b) ==
    IF b.src < b.sources
    THEN [b EXCEPT !.src = @ + 1, !.v = 1, !.generated = 0,
                   !.pc = IF b.variants = 0 THEN "close" ELSE "variant"]
    ELSE [b EXCEPT !.pc = "finish"]

\* await update_job_status(job_id, RUNNING); the loop over image_urls is entered
B_Start ==
    /\ bt.pc = "start"
    /\ store' = update_job_status(store, AIJob, RUNNING, NoResult, NULL)
    /\ bt' = NextSource(bt)
    /\ BatchFrame

\* one variant: _run_i2i and _download_and_upload return n re-hosted URLs;
\* generated.extend(uploaded)
B_VariantOk(n) ==
    /\ bt.pc = "variant"
    /\ bt' = [bt EXCEPT !.generated = @ + n, !.v = @ + 1,
                        !.pc = IF bt.v < bt.variants THEN "variant" ELSE "close"]
    /\ UNCHANGED store
    /\ BatchFrame

\* item["generated_images"] = generated; if generated: success_count += 1
CloseItem(b) ==
    [NextSource(b) EXCEPT
        !.items = Append(@, Item(b.src, b.generated, FALSE, b.generated, b.v - 1)),
        !.success_count = IF b.generated > 0 THEN @ + 1 ELSE @]

\* the variants of the source are over: items.append(item); asyncio.sleep(0)
B_Close ==
    /\ bt.pc = "close"
    /\ bt' = CloseItem(bt)
    /\ UNCHANGED store
    /\ BatchFrame

\* a failure that ends the loop over image_urls
B_VariantRaise_Stop ==
    /\ bt.pc = "variant"
    /\ bt' = [bt EXCEPT !.items = Append(@, Item(bt.src, 0, TRUE, bt.generated, bt.v)),
                        !.pc = "finish"]
    /\ UNCHANGED store
    /\ BatchFrame

\* one variant: _run_i2i or _download_and_upload raises; except Exception as
\* exc: item["error"] = str(exc), the item keeps generated_images = [];
\* items.append(item); asyncio.sleep(0)
B_VariantRaise ==
    /\ bt.pc = "variant"
    /\ bt' = [NextSource(bt) EXCEPT
                !.items = Append(@, Item(bt.src, 0, TRUE, bt.generated, bt.v))]
    /\ UNCHANGED store
    /\ BatchFrame

\* sum(len(it.get("generated_images") or []) for it in items)
RECURSIVE total_generated(_)
total_generated(items) ==
    IF items = <<>> THEN 0
    ELSE Head(items).generated_images + total_generated(Tail(items))

\* result = {"provider": "mixed", "items": items, "summary": {...}}
BatchResultOf(b) ==
    [tag |-> "ai", stage |-> "", progress |-> 0, provider |-> "mixed",
     items |-> b.items,
     summary |-> [count_sources |-> b.sources, variants_per_image |-> b.variants,
                  total_generated |-> total_generated(b.items)]]

\* if success_count == 0: ERROR "All batch items failed"; else DONE with result
B_Finish ==
    /\ bt.pc = "finish"
    /\ store' = IF bt.success_count = 0
                THEN update_job_status(store, AIJob, ERROR, NoResult, "All batch items failed")
                ELSE update_job_status(store, AIJob, DONE, BatchResultOf(bt), NULL)
    /\ bt' = [bt EXCEPT !.pc = "end"]
    /\ BatchFrame

\* ----------------------------------------------------------------- time
\* one second passes: every key loses a second, a key with none left is gone
Tick ==
    /\ \E k \in DOMAIN store : TRUE
    /\ store' = [k \in {j \in DOMAIN store : store[j].ex > 1} |->
                    [store[k] EXCEPT !.ex = @ - 1]]
    /\ age' = [j \in JobIds |->
                IF j < nextId /\ age[j] < JOB_TTL_SECONDS THEN age[j] + 1 ELSE age[j]]
    /\ UNCHANGED <<queue, job_queue, nextId, wk, enq, deq, pops, up>>
    /\ UNCHANGED fine

\* --------------------------------------------------- main.py _worker_loop
SetWk(w, rec) == [wk EXCEPT ![w] = rec]

\* job = get_job(job_id); if not job: continue
Loaded(w, job_id) ==
    LET job == get_job(store, job_id) IN
    IF job = None
    THEN SetWk(w, Idle)
    ELSE SetWk(w, [Idle EXCEPT !.pc = "running", !.job_id = job_id, !.kind = job.kind])

\* job_id = await job_queue.get(), and the job is loaded
MainPop(w) ==
    /\ w \in MainWorkers
    /\ up
    /\ wk[w].pc = "pop"
    /\ job_queue # <<>>
    /\ job_queue' = Tail(job_queue)
    /\ wk' = Loaded(w, Head(job_queue))
    /\ pops' = [pops EXCEPT ![Head(job_queue)] = @ + 1]
    /\ UNCHANGED <<store, queue, nextId, enq, deq, age, up>>
    /\ UNCHANGED fine

\* the pipeline a loop hands the loaded job to
Dispatch(w, kind) ==
    IF w \in MainWorkers THEN "v_start"
    ELSE IF kind = "video_filter" THEN "v_start" ELSE "a_start"

\* a status write of worker w to its job
Write(w, status, result, error) ==
    /\ up
    /\ store' = update_job_status(store, wk[w].job_id, status, result, error)
    /\ age' = Wrote(age, store, wk[w].job_id)

\* a loop that enters the pipeline without writing RUNNING
SetRunning_NoWrite(w) ==
    /\ wk[w].pc = "running"
    /\ wk' = SetWk(w, [wk[w] EXCEPT !.pc = Dispatch(w, wk[w].kind)])
    /\ UNCHANGED <<store, age, queue, job_queue, nextId, enq, deq, pops, up>>
    /\ UNCHANGED fine

\* update_job_status(job_id, RUNNING); then the pipeline is entered
SetRunning(w) ==
    /\ wk[w].pc = "running"
    /\ Write(w, RUNNING, NoResult, NULL)
    /\ wk' = SetWk(w, [wk[w] EXCEPT !.pc = Dispatch(w, wk[w].kind)])
    /\ UNCHANGED <<queue, job_queue, nextId, enq, deq, pops, up>>
    /\ UNCHANGED fine

\* j = get_job(job_id); if j and j["status"] not in (DONE, ERROR): update DONE
Post(w) ==
    /\ up
    /\ wk[w].pc = "post"
    /\ LET j == get_job(store, wk[w].job_id) IN
        IF j # None /\ j.status \notin Terminal
        THEN Write(w, DONE, wk[w].ret, NULL)
        ELSE UNCHANGED <<store, age>>
    /\ wk' = SetWk(w, Idle)
    /\ UNCHANGED <<queue, job_queue, nextId, enq, deq, pops, up>>
    /\ UNCHANGED fine

\* except Exception as e: update_job_status(job_id, ERROR, error=str(e))
Except(w) ==
    /\ wk[w].pc = "except"
    /\ Write(w, ERROR, NoResult, wk[w].exc)
    /\ wk' = SetWk(w, Idle)
    /\ UNCHANGED <<queue, job_queue, nextId, enq, deq, pops, up>>
    /\ UNCHANGED fine

\* ------------------------------------------- main.py _process_video_task
\* update_job_status(job_id, RUNNING, result={"stage": "downloading", "progress": 10})
V_Start(w) ==
    /\ wk[w].pc = "v_start"
    /\ Write(w, RUNNING, Progress("downloading", 10), NULL)
    /\ wk' = SetWk(w, [wk[w] EXCEPT !.pc = "v_check"])
    /\ UNCHANGED <<queue, job_queue, nextId, enq, deq, pops, up>>
    /\ UNCHANGED fine

\* if not _has_ffmpeg(): ERROR and raise; else await _download_to(url, src)
V_Check(w) ==
    /\ wk[w].pc = "v_check"
    /\ \E has_ffmpeg \in BOOLEAN, downloaded \in BOOLEAN :
        IF ~has_ffmpeg
        THEN /\ Write(w, ERROR, NoResult, "ffmpeg not available")
             /\ wk' = SetWk(w, [wk[w] EXCEPT !.pc = "except",
                                            !.exc = "ffmpeg not available"])
        ELSE /\ UNCHANGED <<store, age>>
             /\ IF downloaded
                THEN wk' = SetWk(w, [wk[w] EXCEPT !.pc = "v_prep"])
                ELSE wk' = SetWk(w, [wk[w] EXCEPT !.pc = "except",
                                                 !.exc = "Download failed"])
    /\ UNCHANGED <<queue, job_queue, nextId, enq, deq, pops, up>>
    /\ UNCHANGED fine

\* update_job_status(job_id, RUNNING, result={"stage": "preparing_filters", "progress": 30})
V_Prep(w) ==
    /\ wk[w].pc = "v_prep"
    /\ Write(w, RUNNING, Progress("preparing_filters", 30), NULL)
    /\ wk' = SetWk(w, [wk[w] EXCEPT !.pc = "v_enc"])
    /\ UNCHANGED <<queue, job_queue, nextId, enq, deq, pops, up>>
    /\ UNCHANGED fine

\* update_job_status(job_id, RUNNING, result={"stage": "encoding", "progress": 70, "vf": vf})
V_Enc(w) ==
    /\ wk[w].pc = "v_enc"
    /\ Write(w, RUNNING, Progress("encoding", 70), NULL)
    /\ wk' = SetWk(w, [wk[w] EXCEPT !.pc = "v_read", !.last_pct = 70, !.lines = 0])
    /\ UNCHANGED <<queue, job_queue, nextId, enq, deq, pops, up>>
    /\ UNCHANGED fine

\* pct of one progress line: 70 + int(frac * 29) when the duration is known,
\* min(99, last_pct + 1) when it is not
Pct(last_pct, known, frac29) ==
    IF known THEN 70 + frac29
    ELSE IF last_pct + 1 < 99 THEN last_pct + 1 ELSE 99

\* the values int(frac * 29) of the progress lines that are tried
Frac29 == {0, 14, 29}

\* line = await proc.stderr.readline(): a progress line
V_Read(w) ==
    /\ wk[w].pc = "v_read"
    /\ wk[w].lines < MaxLines
    /\ \E known \in BOOLEAN, f \in Frac29, throttled \in BOOLEAN :
        LET pct == Pct(wk[w].last_pct, known, f) IN
        IF pct # wk[w].last_pct /\ ~throttled
        THEN /\ Write(w, RUNNING, Progress("encoding", pct), NULL)
             /\ wk' = SetWk(w, [wk[w] EXCEPT !.last_pct = pct, !.lines = @ + 1])
        ELSE /\ UNCHANGED <<store, age>>
             /\ wk' = SetWk(w, [wk[w] EXCEPT !.lines = @ + 1])
    /\ UNCHANGED <<queue, job_queue, nextId, enq, deq, pops, up>>
    /\ UNCHANGED fine

\* end of the stream; rc = await proc.wait(); ERROR and raise, or DONE and return
V_Wait(w) ==
    /\ wk[w].pc = "v_read"
    /\ \E rc \in {0, 1} :
        IF rc # 0
        THEN /\ Write(w, ERROR, NoResult, "ffmpeg failed")
             /\ wk' = SetWk(w, [wk[w] EXCEPT !.pc = "except", !.exc = "ffmpeg failed: "])
        ELSE /\ Write(w, DONE, VideoResult, NULL)
             /\ wk' = SetWk(w, [wk[w] EXCEPT !.pc = "post", !.ret = VideoResult])
    /\ UNCHANGED <<queue, job_queue, nextId, enq, deq, pops, up>>
    /\ UNCHANGED fine

\* ---------------- main.py, one run of _process_video_task line by line
\* the keys of vf_map; "other" is any preset that is not a key
Presets ==
    {"b&w", "warm", "cool", "boost", "cinematic", "teal_orange", "vignette", "matte",
     "pastel", "hdr", "sepia", "bleach_bypass", "grain", "clarity", "fade_soft",
     "deband", "other"}

\* vf = vf_map.get(pkey, vf_map["cinematic"]): the chain as the names of its
\* terms, in order (the arguments of a term play no part in the substitutions)
vf_map(pkey) ==
    CASE pkey = "b&w" -> <<"hue">>
      [] pkey = "warm" -> <<"curves", "curves", "eq">>
      [] pkey = "cool" -> <<"curves", "curves", "eq">>
      [] pkey = "boost" -> <<"eq", "unsharp">>
      [] pkey = "teal_orange" -> <<"colorbalance", "eq", "vignette">>
      [] pkey = "vignette" -> <<"vignette">>
      [] pkey = "matte" -> <<"eq">>
      [] pkey = "pastel" -> <<"eq", "gblur">>
      [] pkey = "hdr" -> <<"unsharp", "eq">>
      [] pkey = "sepia" -> <<"colorchannelmixer", "eq">>
      [] pkey = "bleach_bypass" -> <<"eq", "noise">>
      [] pkey = "grain" -> <<"noise">>
      [] pkey = "clarity" -> <<"unsharp">>
      [] pkey = "fade_soft" -> <<"eq", "gblur">>
      [] pkey = "deband" -> <<"gradfun">>
      [] OTHER -> <<"eq", "gblur", "unsharp", "vignette">>

\* "name" in vf
InChain(vf, name) == \E i \in DOMAIN vf : vf[i] = name

\* vf from term i on, without the terms whose index is in drop
RECURSIVE CutTerms(_, _, _)
CutTerms(vf, i, drop) ==
    IF i > Len(vf) THEN <<>>
    ELSE (IF i \in drop THEN <<>> ELSE <<vf[i]>>) \o CutTerms(vf, i + 1, drop)

\* a gblur flag that is raised only when boxblur takes the place of gblur
gblur_fallback_used_BoxblurOnly(vf, supp) ==
    InChain(vf, "gblur") /\ ~supp.gblur /\ supp.boxblur

\* gblur_fallback_used: if "gblur" in vf and not supp.get("gblur"), on both branches
gblur_fallback_used(vf, supp) == InChain(vf, "gblur") /\ ~supp.gblur

\* gblur -> boxblur, or the gblur term is cut out of the chain
GblurStep(vf, supp) ==
    IF InChain(vf, "gblur") /\ ~supp.gblur
    THEN IF supp.boxblur
         THEN [i \in DOMAIN vf |-> IF vf[i] = "gblur" THEN "boxblur" ELSE vf[i]]
         ELSE CutTerms(vf, 1, {i \in DOMAIN vf : vf[i] = "gblur"})
    ELSE vf

\* vignette_paramless_used
vignette_paramless_used(vf, supp) == InChain(vf, "vignette") /\ supp.vignette

\* vignette_removed: if "vignette" in vf and not supp.get("vignette")
vignette_removed(vf, supp) == InChain(vf, "vignette") /\ ~supp.vignette

\* vf.replace(",vignette", ""): a vignette term that follows a comma is cut
VignetteStep(vf, supp) ==
    IF InChain(vf, "vignette") /\ ~supp.vignette
    THEN CutTerms(vf, 1, {i \in DOMAIN vf : vf[i] = "vignette" /\ i > 1})
    ELSE vf

\* cmd = [FFMPEG, "-y", "-i", str(src), "-vf", vf, ...]: the chain after both steps
TranscoderChain(preset, supp) == VignetteStep(GblurStep(vf_map(preset), supp), supp)

\* the result dict of _process_video_task: it has no stage and no progress key
VideoResultOf(preset, supp) ==
    LET vf0 == vf_map(preset)
        vf1 == GblurStep(vf0, supp)
    IN  [tag |-> "video", stage |-> "", progress |-> 0, ok |-> TRUE,
         preset |-> preset,
         vf |-> VignetteStep(vf1, supp),
         gblur_fallback |-> gblur_fallback_used(vf0, supp),
         vignette_paramless |-> vignette_paramless_used(vf1, supp),
         vignette_removed |-> vignette_removed(vf1, supp)]

\* a video_filter job was created and popped, the loop wrote RUNNING, and
\* _process_video_task(job_id, payload) is about to run
InitVideo ==
    /\ \E preset \in Presets, supp \in Probes, known \in BOOLEAN :
        vid = [VideoOff EXCEPT !.pc = "start", !.preset = preset, !.supp = supp,
                               !.known = known]
    /\ store = update_job_status(create_job(<<>>, "video_filter", NoJobId, AIJob),
                                 AIJob, RUNNING, NoResult, NULL)
    /\ queue = <<>>
    /\ job_queue = <<>>
    /\ nextId = AIJob + 1
    /\ wk = [w \in Workers |-> Idle]
    /\ enq = <<>>
    /\ deq = <<>>
    /\ pops = [j \in JobIds |-> IF j = AIJob THEN 1 ELSE 0]
    /\ age = [j \in JobIds |-> 0]
    /\ up = TRUE
    /\ api = NoCall
    /\ ai = AIOff
    /\ bt = BatchOff
    /\ poll = PollOff
    /\ lp = LoopOff

\* what a step of the run leaves alone, the record of the job apart
VideoFrame == UNCHANGED <<queue, job_queue, nextId, wk, enq, deq, pops, age, up, fineNotVideo>>

\* update_job_status(job_id, RUNNING, result={"stage": stage, "progress": pct}),
\* and the value is remembered
WriteProgress(stage, pct) ==
    /\ store' = update_job_status(store, AIJob, RUNNING, Progress(stage, pct), NULL)
    /\ vid' = [vid EXCEPT !.written = Append(@, pct), !.last_pct = pct,
                          !.pipe = IF vid.pc = "read" THEN @ - 1 ELSE @,
                          !.pc = CASE vid.pc = "start" -> "check"
                                   [] vid.pc = "prep" -> "enc"
                                   [] OTHER -> "read"]

\* update_job_status(job_id, RUNNING, result={"stage": "downloading", "progress": 10})
VF_Start ==
    /\ vid.pc = "start"
    /\ WriteProgress("downloading", 10)
    /\ VideoFrame

\* if not _has_ffmpeg(): ERROR and raise; else await _download_to(url, src),
\* which returns or raises
VF_Check(has_ffmpeg, downloaded) ==
    /\ vid.pc = "check"
    /\ IF ~has_ffmpeg
       THEN /\ store' = update_job_status(store, AIJob, ERROR, NoResult, "ffmpeg not available")
            /\ vid' = [vid EXCEPT !.pc = "except", !.exc = "ffmpeg not available"]
       ELSE IF ~downloaded
       THEN /\ UNCHANGED store
            /\ vid' = [vid EXCEPT !.pc = "except", !.exc = "Download failed"]
       ELSE /\ UNCHANGED store
            /\ vid' = [vid EXCEPT !.pc = "prep"]
    /\ VideoFrame

\* update_job_status(job_id, RUNNING, result={"stage": "preparing_filters", "progress": 30})
VF_Prep ==
    /\ vid.pc = "prep"
    /\ WriteProgress("preparing_filters", 30)
    /\ VideoFrame

\* the chain is resolved; update_job_status(job_id, RUNNING,
\* result={"stage": "encoding", "progress": 70, "vf": vf}); last_pct = 70
VF_Enc ==
    /\ vid.pc = "enc"
    /\ WriteProgress("encoding", 70)
    /\ VideoFrame

\* the transcoder writes one more line to its stderr pipe
VF_Emit ==
    /\ vid.pc = "read"
    /\ ~vid.eof
    /\ vid.lines < MaxStream
    /\ vid' = [vid EXCEPT !.lines = @ + 1, !.pipe = @ + 1]
    /\ UNCHANGED store
    /\ VideoFrame

\* the transcoder closes its stderr: it is about to exit
VF_Exit ==
    /\ vid.pc = "read"
    /\ ~vid.eof
    /\ vid' = [vid EXCEPT !.eof = TRUE]
    /\ UNCHANGED store
    /\ VideoFrame

\* line = await proc.stderr.readline() with a time= stamp: pct is written
\* if pct != last_pct and (now - last_t) >= 0.3
VF_Line(f, throttled) ==
    /\ vid.pc = "read"
    /\ vid.pipe > 0
    /\ LET pct == Pct(vid.last_pct, vid.known, f) IN
        IF pct # vid.last_pct /\ ~throttled
        THEN WriteProgress("encoding", pct)
        ELSE /\ UNCHANGED store
             /\ vid' = [vid EXCEPT !.pipe = @ - 1]
    /\ VideoFrame

\* line = await proc.stderr.readline() without a time= stamp (a warning, an
\* error message): the line is dropped
VF_Diag ==
    /\ vid.pc = "read"
    /\ vid.pipe > 0
    /\ vid' = [vid EXCEPT !.pipe = @ - 1]
    /\ UNCHANGED store
    /\ VideoFrame

\* the text a failed run leaves in the record and in its exception
TailText == "tail of stderr"
TailRaised == "ffmpeg failed: tail of stderr"

\* rem = await proc.stderr.read(); err_tail = rem.decode()[-500:], rem being
\* the unread lines of the pipe
err_tail(unread) == IF unread = 0 THEN "" ELSE TailText

\* (err_tail or "ffmpeg failed")[-500:]
ErrorOf(tail) == IF tail = "" THEN "ffmpeg failed" ELSE tail

\* f"ffmpeg failed: {err_tail}"
RaisedOf(tail) == IF tail = "" THEN "ffmpeg failed: " ELSE TailRaised

\* readline() gave b"" (the pipe is empty and closed): break; rc = await
\* proc.wait(): ERROR and raise, or update_job_status(job_id, DONE, result=result)
VF_Wait(rc) ==
    /\ vid.pc = "read"
    /\ vid.eof /\ vid.pipe = 0
    /\ IF rc # 0
       THEN /\ store' = update_job_status(store, AIJob, ERROR, NoResult,
                                          ErrorOf(err_tail(vid.pipe)))
            /\ vid' = [vid EXCEPT !.pc = "except", !.rc = rc,
                                  !.exc = RaisedOf(err_tail(vid.pipe))]
       ELSE /\ store' = update_job_status(store, AIJob, DONE,
                                          VideoResultOf(vid.preset, vid.supp), NULL)
            /\ vid' = [vid EXCEPT !.pc = "end"]
    /\ VideoFrame

\* _worker_loop: except Exception as e: update_job_status(job_id, ERROR, error=str(e))
VF_Except ==
    /\ vid.pc = "except"
    /\ store' = update_job_status(store, AIJob, ERROR, NoResult, vid.exc)
    /\ vid' = [vid EXCEPT !.pc = "end"]
    /\ VideoFrame

\* ------------------------------------- the loop that drains the Redis list
\* job_id = await brpop_job(timeout); an empty list gives None and the loop retries
RedisPop(w) ==
    /\ w \in RedisWorkers
    /\ up
    /\ wk[w].pc = "pop"
    /\ queue # <<>>
    /\ LET item == brpop_job(queue) IN
        /\ queue' = item.rest
        /\ wk' = Loaded(w, item.job_id)
        /\ deq' = Append(deq, item.job_id)
        /\ pops' = [pops EXCEPT ![item.job_id] = @ + 1]
    /\ UNCHANGED <<store, job_queue, nextId, enq, age, up>>
    /\ UNCHANGED fine

\* ------------------------------------------- ai_worker.py process_ai_job
\* await update_job_status(job_id, RUNNING)
A_Start(w) ==
    /\ wk[w].pc = "a_start"
    /\ Write(w, RUNNING, NoResult, NULL)
    /\ wk' = SetWk(w, [wk[w] EXCEPT
            !.pc = IF wk[w].kind = "avatar_batch" THEN "a_batch" ELSE "a_run"])
    /\ UNCHANGED <<queue, job_queue, nextId, enq, deq, pops, up>>
    /\ UNCHANGED fine

\* provider, urls, meta = await _run_t2i(payload) / _run_i2i(payload);
\* then update_job_status(job_id, RUNNING), or the exception of the provider
A_Run(w) ==
    /\ wk[w].pc = "a_run"
    /\ \E generated \in BOOLEAN :
        IF generated
        THEN /\ Write(w, RUNNING, NoResult, NULL)
             /\ wk' = SetWk(w, [wk[w] EXCEPT !.pc = "a_upload"])
        ELSE /\ UNCHANGED <<store, age>>
             /\ wk' = SetWk(w, [wk[w] EXCEPT !.pc = "a_except", !.exc = "provider error"])
    /\ UNCHANGED <<queue, job_queue, nextId, enq, deq, pops, up>>
    /\ UNCHANGED fine

\* uploaded = await _download_and_upload(urls); empty raises; else DONE and return
A_Upload(w) ==
    /\ wk[w].pc = "a_upload"
    /\ \E outcome \in {"raised", "empty", "uploaded"} :
        IF outcome = "uploaded"
        THEN /\ Write(w, DONE, AIResult, NULL)
             /\ wk' = SetWk(w, [wk[w] EXCEPT !.pc = "post"])
        ELSE /\ UNCHANGED <<store, age>>
             /\ wk' = SetWk(w, [wk[w] EXCEPT !.pc = "a_except",
                    !.exc = IF outcome = "empty"
                            THEN "No images uploaded to Cloudinary"
                            ELSE "Download failed"])
    /\ UNCHANGED <<queue, job_queue, nextId, enq, deq, pops, up>>
    /\ UNCHANGED fine

\* the avatar_batch branch: ERROR when success_count == 0, else DONE; return
A_Batch(w) ==
    /\ wk[w].pc = "a_batch"
    /\ \E success_count \in {0, 1} :
        IF success_count = 0
        THEN Write(w, ERROR, NoResult, "All batch items failed")
        ELSE Write(w, DONE, AIResult, NULL)
    /\ wk' = SetWk(w, [wk[w] EXCEPT !.pc = "post"])
    /\ UNCHANGED <<queue, job_queue, nextId, enq, deq, pops, up>>
    /\ UNCHANGED fine

\* except Exception as exc: await update_job_status(job_id, ERROR, error=str(exc))
A_Except(w) ==
    /\ wk[w].pc = "a_except"
    /\ Write(w, ERROR, NoResult, wk[w].exc)
    /\ wk' = SetWk(w, [wk[w] EXCEPT !.pc = "post", !.exc = NULL])
    /\ UNCHANGED <<queue, job_queue, nextId, enq, deq, pops, up>>
    /\ UNCHANGED fine

\* ------------------------------------------------------ Redis not answering
Outage == up /\ up' = FALSE /\ UNCHANGED <<store, queue, job_queue, nextId, wk, enq, deq, pops, age>> /\ UNCHANGED fine

Recover == ~up /\ up' = TRUE /\ UNCHANGED <<store, queue, job_queue, nextId, wk, enq, deq, pops, age>> /\ UNCHANGED fine

StoreError == "store error"

\* the places of the loop body and of _process_video_task that call the store
LoopCalls == {"running", "v_start", "v_check", "v_prep", "v_enc", "v_read", "post"}

\* the places inside the try of process_ai_job that call the store
AICalls == {"a_start", "a_run", "a_upload", "a_batch"}

\* job_id = await job_queue.get(); get_job(job_id) raises: except Exception as e
MainPopRaise(w) ==
    /\ ~up
    /\ w \in MainWorkers
    /\ wk[w].pc = "pop"
    /\ job_queue # <<>>
    /\ job_queue' = Tail(job_queue)
    /\ wk' = SetWk(w, [Idle EXCEPT !.pc = "except", !.job_id = Head(job_queue),
                                  !.exc = StoreError])
    /\ pops' = [pops EXCEPT ![Head(job_queue)] = @ + 1]
    /\ UNCHANGED <<store, queue, nextId, enq, deq, age, up>>
    /\ UNCHANGED fine

\* a store call of the loop body or of the video pipeline raises: the loop's
\* except Exception as e takes it
LoopRaise(w) ==
    /\ ~up
    /\ wk[w].pc \in LoopCalls
    /\ wk' = SetWk(w, [wk[w] EXCEPT !.pc = "except", !.exc = StoreError])
    /\ UNCHANGED <<store, queue, job_queue, nextId, enq, deq, pops, age, up>>
    /\ UNCHANGED fine

\* update_job_status inside the except block of _worker_loop raises: finally
\* runs task_done() and the exception leaves the while loop
HandlerRaise(w) ==
    /\ ~up
    /\ w \in MainWorkers
    /\ wk[w].pc = "except"
    /\ wk' = SetWk(w, [wk[w] EXCEPT !.pc = "dead", !.exc = StoreError])
    /\ UNCHANGED <<store, queue, job_queue, nextId, enq, deq, pops, age, up>>
    /\ UNCHANGED fine

\* the loop of the Redis list lets no exception escape: a failed ERROR write is dropped
RedisHandlerRaise(w) ==
    /\ ~up
    /\ w \in RedisWorkers
    /\ wk[w].pc = "except"
    /\ wk' = SetWk(w, Idle)
    /\ UNCHANGED <<store, queue, job_queue, nextId, enq, deq, pops, age, up>>
    /\ UNCHANGED fine

\* a store call inside the try of process_ai_job raises: except Exception as exc
AIRaise(w) ==
    /\ ~up
    /\ wk[w].pc \in AICalls
    /\ wk' = SetWk(w, [wk[w] EXCEPT !.pc = "a_except", !.exc = StoreError])
    /\ UNCHANGED <<store, queue, job_queue, nextId, enq, deq, pops, age, up>>
    /\ UNCHANGED fine

\* update_job_status inside the except block of process_ai_job raises: the
\* exception leaves process_ai_job and reaches the loop that called it
AIHandlerRaise(w) ==
    /\ ~up
    /\ wk[w].pc = "a_except"
    /\ wk' = SetWk(w, [wk[w] EXCEPT !.pc = "except", !.exc = StoreError,
                                   !.escaped = TRUE])
    /\ UNCHANGED <<store, queue, job_queue, nextId, enq, deq, pops, age, up>>
    /\ UNCHANGED fine

\* ============================================================ properties
Alive(j) == Exists(store, j)
Created(j) == j < nextId
Job(j) == store[j].val
HasResult(j) == Job(j).result # NoResult
HasError(j) == Job(j).error # NULL

Pos(seq, x) == CHOOSE i \in 1..Len(seq) : seq[i] = x

\* C4: ids leave the Redis list in the order they were pushed on it.
C4_Fifo ==
    \A i, k \in 1..Len(deq) : i < k => Pos(enq, deq[i]) < Pos(enq, deq[k])

Owners(j) == {w \in Workers : wk[w].job_id = j}

\* C5: every id is popped at most once and at most one worker holds it.
C5_SingleOwner ==
    \A j \in JobIds : pops[j] <= 1 /\ Cardinality(Owners(j)) <= 1

\* two loops of the same pool hold a job each, both popped from the Redis list
C5_TwoBusy ==
    \E w1, w2 \in RedisWorkers :
        w1 # w2 /\ wk[w1].job_id # 0 /\ wk[w2].job_id # 0 /\ Len(deq) = 2


IsTerminal(j) == Alive(j) /\ Job(j).status \in Terminal

\* C6: every created and enqueued job is eventually popped by a worker loop
\* and eventually has status DONE or ERROR.
C6_EveryJobTerminates ==
    \A j \in JobIds :
        /\ (Created(j) /\ pops[j] = 0) ~> (pops[j] = 1)
        /\ (Created(j) /\ pops[j] = 0) ~> IsTerminal(j)

Handling(w) == wk[w].pc \in {"except", "a_except"}

\* C7: no exception terminates a worker loop, none leaves process_ai_job, and
\* when a worker is through with an exception the record of its job, if there
\* is one, has status ERROR and the message of the exception as its error.
C7_NoExceptionEscapes ==
    /\ [](\A w \in Workers : wk[w].pc # "dead" /\ ~wk[w].escaped)
    /\ [][\A w \in Workers :
            (Handling(w) /\ ~Handling(w)' /\ Exists(store', wk[w].job_id)) =>
                /\ store'[wk[w].job_id].val.status = ERROR
                /\ store'[wk[w].job_id].val.error = wk[w].exc]_vars

VideoPcs == {"v_start", "v_check", "v_prep", "v_enc", "v_read"}
AIPcs == {"a_start", "a_run", "a_upload", "a_batch", "a_except"}
InPipeline(w) == wk[w].pc \in VideoPcs \cup AIPcs

StatusStep(a, b) ==
    \/ a = PENDING /\ b \in {PENDING, RUNNING}
    \/ a = RUNNING /\ b \in {RUNNING, DONE, ERROR}
    \/ a \in Terminal /\ b = a

StatusStepLoose(a, b) ==
    \/ a = PENDING /\ b \in {PENDING, RUNNING}
    \/ a = RUNNING /\ b \in {RUNNING, DONE, ERROR}
    \/ a \in Terminal /\ b \in Terminal

C11_UpdateMissingNoOp ==
    [][(api' # api /\ api'.call = "update" /\ ~Exists(store, api'.job_id)) =>
            /\ api'.ret = None
            /\ store' = store
            /\ queue' = queue]_vars

\* update_job_status was called for an id whose record has expired, while the
\* list holds an id
C11_UpdatedExpired ==
    /\ api.call = "update" /\ api.ret = None
    /\ Created(api.job_id) /\ ~Alive(api.job_id)
    /\ queue # <<>>

\* C12: create_job stores a PENDING record with null result and error under
\* an id that no record had, and changes no other record.
C12_CreateFresh ==
    [][(api' # api /\ api'.call = "create") =>
            /\ ~Exists(store, api'.job_id)
            /\ Exists(store', api'.job_id)
            /\ store'[api'.job_id].val.status = PENDING
            /\ store'[api'.job_id].val.result = NoResult
            /\ store'[api'.job_id].val.error = NULL
            /\ \A k \in DOMAIN store : Exists(store', k) /\ store'[k] = store[k]]_vars

\* the call of the run that failed / failed with a retryable error
Failed(c) == c.exc # NoExc
FailedRetryable(c) == Failed(c) /\ _is_retryable_error(c.exc)

\* the run has left _run_t2i / _run_i2i with an exception
RunRaised == ai.pc \in {"except", "end"} /\ ai.raised.by \in {"primary", "fallback"}

\* an error that is not retryable: an AIProviderError flagged so, or an
\* exception that is neither an AIProviderError nor a timeout or network error
NonRetryable(exc) ==
    \/ exc.cls = "AIProviderError" /\ ~exc.retryable
    \/ exc.cls \notin {"AIProviderError", "TimeoutException", "NetworkError"}

\* C13: when a call to the primary fails with a non-retryable error, no call
\* follows it, the fallback was never called, and that error is the one raised.
C13_NonRetryableStops ==
    \A i \in 1..Len(ai.log) :
        (ai.log[i].who = "primary" /\ Failed(ai.log[i]) /\ NonRetryable(ai.log[i].exc)) =>
            /\ i = Len(ai.log)
            /\ Calls(ai.log, "fallback") = 0
            /\ RunRaised
            /\ ai.raised = ai.log[i].exc

\* the second call of the primary failed with an error of a class that is not
\* retryable, after a first retryable failure, and the run is over
C13_SecondCallFatal ==
    /\ ai.pc = "end"
    /\ Len(ai.log) = 2
    /\ FailedRetryable(ai.log[1])
    /\ ai.log[2].exc.cls = "ValueError"

\* the primary failed twice with retryable errors and answered its third call
PrimaryThirdTime ==
    /\ Len(ai.log) >= 3
    /\ \A i \in 1..3 : ai.log[i].who = "primary"
    /\ FailedRetryable(ai.log[1]) /\ FailedRetryable(ai.log[2])
    /\ ~Failed(ai.log[3])

BothFailed ==
    /\ Len(ai.log) >= 4
    /\ \A i \in 1..3 : ai.log[i].who = "primary" /\ FailedRetryable(ai.log[i])
    /\ ai.log[Len(ai.log)].who = "fallback" /\ Failed(ai.log[Len(ai.log)])
    /\ ai.pc \in {"except", "end"}

Attempted == IF ai.raised.by \in {"download", "upload"} THEN ai.idx ELSE ai.idx - 1

\* C16: when a run that reached re-hosting is over, every URL was tried, and
\* the job ended ERROR only if no URL was re-hosted.
C16_FailedUrlDropped ==
    (ai.pc = "end" /\ ai.idx >= 1) =>
        /\ Attempted = ai.urls
        /\ (Job(AIJob).status = ERROR => ai.out = <<>>)

\* C17: once _download_and_upload has returned or raised, none of its scratch
\* files is left.
C17_NoScratchLeft ==
    ai.pc \in {"uploaded", "except", "end"} => ai.files = {}

\* a source that produced: a completed variant of it re-hosted an image
Produced(it) == it.produced >= 1

\* C18: an avatar_batch job ends DONE with summary.total_generated >= 1 if and
\* only if at least one source produced at least one re-hosted generated
\* image, and when every source failed it ends ERROR with the error
\* "All batch items failed"
C18_DoneIffSomeSourceProduced ==
    bt.pc = "end" /\ Alive(AIJob) =>
        /\ (Job(AIJob).status = DONE /\ Job(AIJob).result.summary.total_generated >= 1)
            <=> (\E i \in DOMAIN bt.items : Produced(bt.items[i]))
        /\ (\A i \in DOMAIN bt.items : bt.items[i].error) =>
            Job(AIJob).status = ERROR /\ Job(AIJob).error = "All batch items failed"

\* the result dict carries a "progress" key
HasProgress(result) == result.tag = "progress"

\* the progress values written so far never go down
ProgressNeverDrops ==
    \A i, j \in DOMAIN vid.written : i < j => vid.written[i] <= vid.written[j]

\* the record of a DONE job carries a progress value that indicates completion
DoneShowsCompletion ==
    vid.pc = "end" /\ Alive(AIJob) /\ Job(AIJob).status = DONE =>
        HasProgress(Job(AIJob).result) /\ Job(AIJob).result.progress >= 100

C21_ErrorCarriesTail ==
    vid.pc = "end" /\ vid.rc # 0 /\ vid.lines > 0 /\ Alive(AIJob) =>
        Job(AIJob).status = ERROR /\ Job(AIJob).error \in {TailText, TailRaised}

\* C22: every status endpoint answers the lookup of a missing or expired job
\* id with a "not found" body, not with an error response
C22_NotFoundIsBenign ==
    api.call = "status" /\ api.ret = None =>
        api.resp.http = 200 /\ ~api.resp.ok /\ api.resp.error = "Job not found"

\* a request body that fails validation: a blank prompt, steps outside 10..50,
\* an aspect ratio outside the allowed set, a strength outside 0..1, a batch
\* of fewer than 15 or more than 50 URLs, variants outside 1..4; a field that
\* is null or blank is absent and has its default
FailsValidation(endpoint, req) ==
    \/ Strip(req.prompt) = ""
    \/ req.steps.some /\ req.steps.v \notin 10..50
    \/ req.aspect_ratio.some /\ req.aspect_ratio.v # ""
            /\ req.aspect_ratio.v \notin ALLOWED_ASPECTS
    \/ endpoint # "ai_generate_text" /\ req.strength.some /\ req.strength.v \notin 0..10
    \/ endpoint = "ai_generate_batch" /\ req.image_urls \notin 15..50
    \/ endpoint = "ai_generate_batch" /\ req.variants_per_image.some
            /\ req.variants_per_image.v \notin 1..4

\* C23: a request to an AI producer endpoint whose payload fails validation is
\* rejected, and neither creates a job record nor enqueues a job id
C23_InvalidRejected ==
    api.call = "generate" /\ FailsValidation(api.endpoint, api.req) =>
        api.http # 200 /\ store = <<>> /\ queue = <<>>

\* what holds at every moment of a call of _replicate_poll: at most 120
\* requests, none after a terminal answer, a return only with a terminal
\* status, and after 120 pending answers a timeout flagged retryable
PollBounded ==
    /\ poll.requests <= PollAttempts
    /\ poll.late = 0
    /\ poll.status \in TerminalStatuses => poll.pc = "end" /\ poll.ret = poll.status
    /\ poll.ret # "none" => poll.ret \in TerminalStatuses
    /\ (poll.pc = "end" /\ poll.ret = "none" /\ poll.raised.by # "replicate") =>
            /\ poll.requests = PollAttempts
            /\ poll.raised.by = "_replicate_poll"
            /\ poll.raised.cls = "AIProviderError" /\ poll.raised.retryable

\* C24: _replicate_poll always terminates: it issues at most 120 requests,
\* returns at the first terminal answer, and raises a retryable timeout when
\* all 120 answers are still pending
C24_PollTerminates == []PollBounded /\ <>(poll.pc = "end")

\* all 120 answers were pending and the timeout was raised
C24_PollTimedOut ==
    /\ poll.pc = "end" /\ poll.requests = PollAttempts
    /\ poll.status \in PendingStatuses /\ poll.raised.by = "_replicate_poll"

\* C25: while a binary of the transcoder that a coroutine of the event loop
\* started is running, the worker loops of the loop can take steps
C25_TranscoderOffLoop ==
    \A c \in Coroutines : lp.ext[c] # "none" =>
        \A v \in MainWorkers \ {c} : CanStep(v)

\* the delays slept before the retries of provider who, in order
Delays(who) == SelectSeq(ai.sleeps, LAMBDA d : d.who = who)

\* the calls of provider who are over
CallsOver(who) ==
    \/ ai.pc \notin {"call", "sleep"}
    \/ who = "primary" /\ ai.who = "fallback"

\* C26: one _run_t2i / _run_i2i makes at most 3 calls to the primary and at
\* most 3 to the fallback; the fallback is called only after exactly 3 calls
\* of the primary that all failed with retryable errors; the delays before
\* the retries of a provider are 1 then 2, and no delay follows its final or
\* non-retryable failure
C26_CallsAndDelays ==
    /\ \A who \in {"primary", "fallback"} :
        /\ Calls(ai.log, who) <= 3
        /\ Len(Delays(who)) <= 2
        /\ \A k \in DOMAIN Delays(who) : Delays(who)[k].delay = k
        /\ CallsOver(who) =>
              Len(Delays(who)) = (IF Calls(ai.log, who) = 0 THEN 0 ELSE Calls(ai.log, who) - 1)
    /\ (Calls(ai.log, "fallback") > 0 \/ (ai.who = "fallback" /\ ai.pc = "call")) =>
        /\ Calls(ai.log, "primary") = 3
        /\ \A i \in 1..3 : /\ ai.log[i].who = "primary"
                           /\ Failed(ai.log[i]) /\ ~NonRetryable(ai.log[i].exc)

\* both providers made their three calls, with two delays each
C26_SixCalls ==
    /\ ai.pc = "end"
    /\ Calls(ai.log, "primary") = 3 /\ Calls(ai.log, "fallback") = 3
    /\ Len(Delays("primary")) = 2 /\ Len(Delays("fallback")) = 2

\* C27: update_job_status on an existing record changes only status and
\* updated_at, plus result when a result argument is given and error when an
\* error argument is given; job_id, kind, payload and created_at stay, and a
\* stored result or error is retained when the argument is omitted
C27_UpdateTouchesOnlyItsFields ==
    [][\A now \in Times :
        R_Set(now) /\ Exists(store, api.job_id) =>
            LET old == store[api.job_id].val
                new == store'[api.job_id].val
            IN  /\ new.job_id = old.job_id /\ new.kind = old.kind
                /\ new.payload = old.payload /\ new.created_at = old.created_at
                /\ new.status = api.status /\ new.updated_at = now
                /\ new.result = (IF api.result # NoResult THEN api.result ELSE old.result)
                /\ new.error = (IF api.error # NULL THEN api.error ELSE old.error)
                /\ DOMAIN new = DOMAIN old]_vars

\* an update without result and error arguments was written over a record
\* that had both, at a later time
C27_OmittedArgumentsKept ==
    /\ api.call = "returned" /\ api.existed
    /\ api.result = NoResult /\ api.error = NULL
    /\ api.raw.result = AIResult /\ api.raw.error = "boom"
    /\ api.status # api.raw.status /\ api.now # api.raw.updated_at
    /\ Exists(store, api.job_id)
    /\ store[api.job_id].val.result = AIResult
    /\ store[api.job_id].val.error = "boom"
    /\ store[api.job_id].val.status = api.status
    /\ store[api.job_id].val.updated_at = api.now

\* C30: a record that expired between the read and the write inside
\* update_job_status is not re-created: no update makes a record appear
\* under an id that has none
C30_UpdateNeverRecreates ==
    [][\A j \in JobIds : Exists(store', j) => Exists(store, j)]_vars

\* C28: for every preset and every probe outcome, the filter chain handed to
\* the transcoder has no gblur term when gblur is unsupported and no vignette
\* term when vignette is unsupported
C28_ChainHasOnlySupportedFilters ==
    vid.pc = "read" =>
        /\ ~vid.supp.gblur => ~InChain(TranscoderChain(vid.preset, vid.supp), "gblur")
        /\ ~vid.supp.vignette => ~InChain(TranscoderChain(vid.preset, vid.supp), "vignette")

\* C29: the items of an avatar_batch job over N sources with M variants each
\* hold exactly one entry per source in input order; a failure at variant j
\* stops the source after j generation attempts with the error on its item,
\* and the next source is processed
C29_OneItemPerSource ==
    /\ \A i \in DOMAIN bt.items :
        /\ bt.items[i].source = i
        /\ bt.items[i].error => bt.items[i].attempts \in 1..bt.variants
        /\ ~bt.items[i].error => bt.items[i].attempts = bt.variants
    /\ bt.pc \in {"variant", "close"} => Len(bt.items) = bt.src - 1 /\ bt.src <= bt.sources
    /\ bt.pc \in {"finish", "end"} => Len(bt.items) = bt.sources

\* the first source failed at its second variant, the second source went
\* through both of its variants
C29_FailedThenProduced ==
    /\ bt.pc = "end" /\ bt.sources = 2 /\ bt.variants = 2
    /\ Len(bt.items) = 2
    /\ bt.items[1].error /\ bt.items[1].attempts = 2
    /\ ~bt.items[2].error /\ bt.items[2].attempts = 2 /\ bt.items[2].generated_images >= 1

\* C10: get_job finds a created job exactly while less than JOB_TTL_SECONDS
\* have passed since the last write to it.
C10_FoundIffFresh ==
    \A j \in JobIds :
        Created(j) => ((get_job(store, j) # None) <=> (age[j] < JOB_TTL_SECONDS))

\* one job is no longer found while another, written to since it was created,
\* still is
C10_ExpiredAndRefreshed ==
    \E j1, j2 \in JobIds :
        /\ Created(j1) /\ get_job(store, j1) = None
        /\ Alive(j2) /\ Job(j2).status # PENDING /\ age[j2] = 1

Next ==
    \/ \E kind \in Kinds : ProduceRpush(kind)
    \/ ProduceLpush
    \/ ProduceMain
    \/ Tick
    \/ \E w \in Workers : MainPop(w)
    \/ \E w \in Workers : SetRunning(w)
    \/ \E w \in Workers : Post(w)
    \/ \E w \in Workers : Except(w)
    \/ \E w \in Workers : V_Start(w)
    \/ \E w \in Workers : V_Check(w)
    \/ \E w \in Workers : V_Prep(w)
    \/ \E w \in Workers : V_Enc(w)
    \/ \E w \in Workers : V_Read(w)
    \/ \E w \in Workers : V_Wait(w)
    \/ \E w \in Workers : RedisPop(w)
    \/ \E w \in Workers : A_Start(w)
    \/ \E w \in Workers : A_Run(w)
    \/ \E w \in Workers : A_Upload(w)
    \/ \E w \in Workers : A_Batch(w)
    \/ \E w \in Workers : A_Except(w)

Spec == Init /\ [][Next]_vars

\* the same system with a Redis that may stop answering
NextF ==
    \/ Next
    \/ Outage
    \/ Recover
    \/ \E w \in Workers : MainPopRaise(w)
    \/ \E w \in Workers : LoopRaise(w)
    \/ \E w \in Workers : HandlerRaise(w)
    \/ \E w \in Workers : RedisHandlerRaise(w)
    \/ \E w \in Workers : AIRaise(w)
    \/ \E w \in Workers : AIHandlerRaise(w)

SpecF == Init /\ [][NextF]_vars

\* jobs.py on its own: producers and direct callers of the store, no worker
NextApi ==
    \/ \E kind \in Kinds : ProduceRpush(kind)
    \/ Tick
    \/ \E kind \in Kinds, j \in {0} \cup JobIds : CallCreate(kind, Payload(j))
    \/ \E j \in JobIds, status \in ApiStatuses, result \in ApiResults, error \in ApiErrors :
            CallUpdate(j, status, result, error)

SpecApi == Init /\ [][NextApi]_vars

\* producers, time and the clients that read a job's status
NextStatus ==
    \/ \E kind \in Kinds : ProduceRpush(kind)
    \/ Tick
    \/ \E endpoint \in StatusEndpoints, job_id \in JobIds : CallStatus(endpoint, job_id)

SpecStatus == Init /\ [][NextStatus]_vars

\* one job record, time, and update_job_status calls one after the other,
\* the read and the write of each a step of its own
NextRecord ==
    \/ Tick
    \/ \E j \in JobIds, status \in ApiStatuses, result \in ApiResults, error \in ApiErrors :
            R_Get(j, status, result, error)
    \/ \E j \in JobIds, status \in ApiStatuses, result \in ApiResults, error \in ApiErrors :
            R_GetNone(j, status, result, error)
    \/ \E now \in Times : R_Set(now)

SpecRecord == InitRecord /\ [][NextRecord]_vars

\* one request to a producer endpoint of routers/ai.py
NextGenerate == AiGenerate

SpecGenerate == InitGenerate /\ [][NextGenerate]_vars

\* one call of _replicate_poll: every awaited request and sleep comes back
NextPoll ==
    \/ \E status \in PendingStatuses : Poll_Pending(status)
    \/ \E status \in TerminalStatuses : Poll_Over(status)
    \/ \E exc \in ProviderExcs("replicate", 0) : Poll_Raise(exc)
    \/ Poll_Wake

SpecPoll == InitPoll /\ [][NextPoll]_vars /\ WF_vars(NextPoll)

\* the worker loops of main.py on their event loop
NextLoop ==
    \E w \in Coroutines :
        \/ L_HasFfmpeg(w)
        \/ L_HasFfprobe(w)
        \/ L_Download(w)
        \/ L_Filters(w)
        \/ L_Ffprobe(w)
        \/ L_Encode(w)
        \/ L_Readline(w)
        \/ L_Wait(w)
        \/ H_Transcode(w)
        \/ H_Return(w)

SpecLoop == Init /\ [][NextLoop]_vars

\* process_ai_job for one single-image job, every provider call and every
\* re-hosted URL a step
NextAI ==
    \/ AI_Start
    \/ \E n \in 1..MaxUrls : AI_CallOk(n)
    \/ \E who \in {"primary", "fallback"}, n \in 1..(Retries + 1) :
            \E exc \in ProviderExcs(who, n) : AI_CallRaise(exc)
    \/ AI_Sleep
    \/ AI_Ran
    \/ \E outcome \in DownloadOutcomes : AI_Download(outcome)
    \/ \E outcome \in UploadOutcomes : AI_Upload(outcome)
    \/ AI_Done
    \/ AI_Except

SpecAI == InitAI /\ [][NextAI]_vars

\* one run of process_ai_job for an avatar_batch job
NextBatch ==
    \/ B_Start
    \/ \E n \in 0..MaxUrls : B_VariantOk(n)
    \/ B_VariantRaise
    \/ B_Close
    \/ B_Finish

SpecBatch == InitBatch /\ [][NextBatch]_vars

\* one run of _process_video_task
NextVideo ==
    \/ VF_Start
    \/ \E has_ffmpeg \in BOOLEAN, downloaded \in BOOLEAN : VF_Check(has_ffmpeg, downloaded)
    \/ VF_Prep
    \/ VF_Enc
    \/ VF_Emit
    \/ VF_Exit
    \/ \E f \in Frac29, throttled \in BOOLEAN : VF_Line(f, throttled)
    \/ VF_Diag
    \/ \E rc \in {0, 1} : VF_Wait(rc)
    \/ VF_Except

SpecVideo == InitVideo /\ [][NextVideo]_vars

\* the scheduler runs every task that can take a step
WorkerNext(w) ==
    \/ MainPop(w) \/ RedisPop(w) \/ SetRunning(w) \/ Post(w) \/ Except(w)
    \/ V_Start(w) \/ V_Check(w) \/ V_Prep(w) \/ V_Enc(w) \/ V_Read(w) \/ V_Wait(w)
    \/ A_Start(w) \/ A_Run(w) \/ A_Upload(w) \/ A_Batch(w) \/ A_Except(w)

\* the same system with producers that never stop, under that scheduler
NextAgain ==
    \/ Next
    \/ \E j \in JobIds, kind \in Kinds : ProduceAgain(j, kind)

FairSpec == Init /\ [][NextAgain]_vars /\ \A w \in Workers : WF_vars(WorkerNext(w))

====
